---- MODULE Spec2Model ----
(***************************************************************************)
(* A model of PubMed-Fetcher: pubmed.fetch_papers (one search request, one *)
(* fetch request, one parse pass over the XML answer) and its caller       *)
(* cli.get_papers.                                                         *)
(*                                                                         *)
(* Python values are records [type, val]: a str carries its characters in  *)
(* val, an int its digits, a list its items, a dict its members, None      *)
(* nothing.  An XML document is the sequence of its                        *)
(* elements in document order (pre-order), each with its tag, its depth    *)
(* (the root has depth 0) and its .text.                                   *)
(***************************************************************************)
EXTENDS Integers, Sequences, FiniteSets, TLC

VARIABLES
    pc,          \* position of the program
    query,       \* get_papers/fetch_papers argument
    file,        \* get_papers option --file (PyNone when absent)
    debug,       \* get_papers option --debug
    requests,    \* the HTTP requests issued so far, in order
    searchResp,  \* `response` (pubmed.py:19)
    ids,         \* `ids` (pubmed.py:26)
    fetchResp,   \* `details_response` (pubmed.py:38)
    root,        \* `root` (pubmed.py:45): the parsed document
    articles,    \* the node list the loop of pubmed.py:48 iterates over
    done,        \* how many of them the loop has handled
    papers,      \* `papers` (pubmed.py:46)
    result,      \* what fetch_papers returned
    output,      \* the lines echoed with typer.echo, in order
    written,     \* the rows handed to DataFrame.to_csv
    error        \* the exception that ended the program, "" when none

vars == <<pc, query, file, debug, requests, searchResp, ids, fetchResp, root,
          articles, done, papers, result, output, written, error>>

(***************************************************************************)
(* Bounds of the model.                                                    *)
(***************************************************************************)
MaxIds == 3
MaxNodes == 5
MaxFieldNodes == 4
MaxBlankNodes == 2
MaxAuthors == 3
MaxAuthorNodes == 3

(***************************************************************************)
(* Program constants.                                                      *)
(***************************************************************************)
RetMax == 10
OK == 200

PUBMED_SEARCH_URL == "https://eutils.ncbi.nlm.nih.gov/entrez/eutils/esearch.fcgi"
PUBMED_FETCH_URL == "https://eutils.ncbi.nlm.nih.gov/entrez/eutils/efetch.fcgi"

(***************************************************************************)
(* Python values.                                                          *)
(***************************************************************************)
PyNone == [type |-> "NoneType", val |-> ""]
PyStr(s) == [type |-> "str", val |-> s]
PyInt(s) == [type |-> "int", val |-> s]
PyList(items) == [type |-> "list", val |-> items]
PyDict(members) == [type |-> "dict", val |-> members]

\* str(v), as an f-string field formats it: None becomes the text "None".
Format(v) == IF v.type = "NoneType" THEN "None" ELSE v.val

\* sep.join(v) raises TypeError when v is a list with an item that is not
\* a str, or an int (not iterable).
JoinFails(v) ==
    IF v.type = "list" THEN \E i \in 1..Len(v.val) : v.val[i].type # "str"
    ELSE v.type = "int"

RECURSIVE JoinFrom(_, _, _)
JoinFrom(sep, list, i) ==
    IF i > Len(list) THEN ""
    ELSE IF i = Len(list) THEN list[i].val
    ELSE list[i].val \o sep \o JoinFrom(sep, list, i + 1)

\* The items in reverse order.
JoinReversed(sep, list) ==
    JoinFrom(sep, [i \in 1..Len(list) |-> list[Len(list) + 1 - i]], 1)

\* sep.join(list) for the items of a list of str.
Join(sep, list) == JoinFrom(sep, list, 1)

(***************************************************************************)
(* xml.etree.ElementTree on a document in pre-order.                       *)
(***************************************************************************)
Node(tag, depth, text) == [tag |-> tag, depth |-> depth, text |-> text]

RECURSIVE SubtreeEndFrom(_, _, _)
SubtreeEndFrom(doc, i, j) ==
    IF j + 1 <= Len(doc) /\ doc[j + 1].depth > doc[i].depth
    THEN SubtreeEndFrom(doc, i, j + 1)
    ELSE j

\* The last element of the subtree of element i.
SubtreeEnd(doc, i) == SubtreeEndFrom(doc, i, i)

IndexSeq(lo, hi) == [k \in 1..(IF hi >= lo THEN hi - lo + 1 ELSE 0) |-> lo + k - 1]

\* Element.iter(tag): element i and its descendants with that tag, in
\* document order.
Iter(doc, i, tag) ==
    SelectSeq(IndexSeq(i, SubtreeEnd(doc, i)), LAMBDA j : doc[j].tag = tag)

\* list(element): the children of element i, in order.
Children(doc, i) ==
    SelectSeq(IndexSeq(i + 1, SubtreeEnd(doc, i)),
              LAMBDA j : doc[j].depth = doc[i].depth + 1)

\* The element itself included.
FindAllWithSelf(doc, i, tag) == Iter(doc, i, tag)

\* element.findall(".//tag"): ElementPath's descendant step yields
\* `e for e in elem.iter(tag) if e is not elem`.
FindAllDescendants(doc, i, tag) ==
    SelectSeq(Iter(doc, i, tag), LAMBDA j : j # i)

\* The step "/tag" of a path: the children with that tag of each element
\* of `from`, element by element.
RECURSIVE ChildStep(_, _, _, _)
ChildStep(doc, from, tag, k) ==
    IF k > Len(from) THEN <<>>
    ELSE SelectSeq(Children(doc, from[k]), LAMBDA j : doc[j].tag = tag)
         \o ChildStep(doc, from, tag, k + 1)

\* find returns the first match or None, here 0.
First(matches) == IF matches = <<>> THEN 0 ELSE matches[1]

\* element.find(".//tag")
FindDescendant(doc, i, tag) == First(FindAllDescendants(doc, i, tag))

\* element.find("tag")
FindChild(doc, i, tag) == First(ChildStep(doc, <<i>>, tag, 1))

\* The first `inner` of the document that is the child of an `outer`.
FindPathInDocumentOrder(doc, i, outer, inner) ==
    First(SelectSeq(FindAllDescendants(doc, i, inner),
                    LAMBDA j : \E c \in 1..Len(doc) :
                                   /\ \E n \in 1..Len(FindAllDescendants(doc, i, outer)) :
                                          FindAllDescendants(doc, i, outer)[n] = c
                                   /\ \E m \in 1..Len(Children(doc, c)) :
                                          Children(doc, c)[m] = j))

\* element.find(".//outer/inner"): the matches come Abstract by Abstract.
FindPath(doc, i, outer, inner) ==
    First(ChildStep(doc, FindAllDescendants(doc, i, outer), inner, 1))


(***************************************************************************)
(* Field extraction, pubmed.py:48-69.                                      *)
(***************************************************************************)
NA == PyStr("N/A")

\* `x.text if x is not None else "N/A"`
TextOrNA(doc, j) == IF j # 0 THEN doc[j].text ELSE NA

\* One author's entry, f"{forename.text} {lastname.text}".
AuthorEntry(doc, lastname, forename) ==
    PyStr(Format(doc[forename].text) \o " " \o Format(doc[lastname].text))

\* authors_list after the loop of pubmed.py:56-60 has handled authors[k..].
RECURSIVE AuthorsFrom(_, _, _)
AuthorsFrom(doc, authors, k) ==
    IF k > Len(authors) THEN <<>>
    ELSE LET lastname == FindChild(doc, authors[k], "LastName")
             forename == FindChild(doc, authors[k], "ForeName")
         IN  (IF lastname # 0 /\ forename # 0
              THEN <<AuthorEntry(doc, lastname, forename)>>
              ELSE <<>>)
             \o AuthorsFrom(doc, authors, k + 1)

AuthorsList(doc, a) == AuthorsFrom(doc, FindAllDescendants(doc, a, "Author"), 1)

AuthorsField(doc, a) ==
    IF AuthorsList(doc, a) # <<>> THEN PyStr(Join(", ", AuthorsList(doc, a))) ELSE NA

\* The record appended for the article at element a.
Paper(doc, a) ==
    [PubmedID |-> TextOrNA(doc, FindDescendant(doc, a, "PMID")),
     Title    |-> TextOrNA(doc, FindDescendant(doc, a, "ArticleTitle")),
     Authors  |-> AuthorsField(doc, a),
     Abstract |-> TextOrNA(doc, FindPath(doc, a, "Abstract", "AbstractText"))]

(***************************************************************************)
(* What the remote service may answer.                                     *)
(***************************************************************************)
Statuses == {OK, 404, 500}

\* requests.get either raises (no connection) or returns a response.
Raises == [raises |-> TRUE, status |-> 0, body |-> <<>>]
Response(status, body) == [raises |-> FALSE, status |-> status, body |-> body]
NoResponse == [raises |-> FALSE, status |-> 0, body |-> <<>>]

\* Search bodies: text that is no JSON, or a JSON value as response.json()
\* returns it.
Text == [kind |-> "text", data |-> PyNone]
Json(value) == [kind |-> "json", data |-> value]

IdValues == {PyStr("31"), PyStr("7"), PyInt("7")}

RECURSIVE SeqsUpTo(_, _)
SeqsUpTo(S, n) ==
    IF n = 0 THEN {<<>>}
    ELSE LET shorter == SeqsUpTo(S, n - 1)
         IN  shorter \cup {Append(s, x) : s \in shorter, x \in S}

IdLists == SeqsUpTo(IdValues, MaxIds)

WithIdList(v) == Json(PyDict([esearchresult |-> PyDict([idlist |-> v])]))

SearchBodies ==
    {Text,
     Json(PyList(<<>>)),
     Json(PyDict([error |-> PyStr("API rate limit exceeded")])),
     Json(PyDict([esearchresult |-> PyStr("unavailable")])),
     Json(PyDict([esearchresult |-> PyDict([count |-> PyStr("0")])])),
     WithIdList(PyNone),
     WithIdList(PyInt("31"))}
    \cup {WithIdList(PyList(l)) : l \in IdLists}

SearchOutcomes ==
    {Raises} \cup {Response(s, b) : s \in Statuses, b \in SearchBodies}

\* A search that found one paper, and the ways a search fails.
OneIdOutcomes ==
    {Raises,
     Response(404, Text),
     Response(OK, Text),
     Response(OK, Json(PyList(<<>>))),
     Response(OK, WithIdList(PyList(<<>>))),
     Response(OK, WithIdList(PyList(<<PyInt("7")>>))),
     Response(OK, WithIdList(PyList(<<PyStr("31")>>)))}

\* Fetch bodies: text that is no XML, or a document.
Xml(doc) == [xml |-> TRUE, doc |-> doc]
NotXml == [xml |-> FALSE, doc |-> <<>>]

TextAt(i) == PyStr("t" \o ToString(i))

\* No generated document is deeper than this.
Depths == 1..(MaxNodes + MaxFieldNodes + MaxAuthorNodes)

\* The documents of P, each with one more element appended: a child of the
\* last element, or a sibling of it or of one of its ancestors.
GrowOne(P, Tags, minDepth) ==
    {Append(c[1], Node(c[2], c[3], TextAt(Len(c[1]) + 1))) :
         c \in {c \in P \X Tags \X Depths :
                    minDepth <= c[3] /\ c[3] <= c[1][Len(c[1])].depth + 1}}

RECURSIVE GrowUpTo(_, _, _, _)
GrowUpTo(P, k, Tags, minDepth) ==
    IF k = 0 THEN P ELSE P \cup GrowUpTo(GrowOne(P, Tags, minDepth), k - 1, Tags, minDepth)

\* Every document of at most MaxNodes elements over these tags.
ArticleTags == {"PubmedArticleSet", "PubmedArticle", "PMID"}
ArticleDocs ==
    GrowUpTo({<<Node(t, 0, TextAt(1))>> : t \in ArticleTags}, MaxNodes - 1, ArticleTags, 1)

\* One article in a set, with at most MaxFieldNodes elements below it.
Skeleton == <<Node("PubmedArticleSet", 0, PyNone), Node("PubmedArticle", 1, PyNone)>>
FieldTags == {"PMID", "ArticleTitle", "Abstract", "AbstractText"}
Blank(d, i) == [d EXCEPT ![i].text = PyNone]
FieldDocs ==
    GrowUpTo({Skeleton}, MaxFieldNodes, FieldTags, 2)
    \cup UNION {{Blank(d, i) : i \in 3..Len(d)} :
                    d \in GrowUpTo({Skeleton}, MaxBlankNodes, FieldTags, 2)}

\* Author elements: each a template of elements (tag, depth below the
\* Author, whether it carries text).
T(tag, depth, text) == [tag |-> tag, depth |-> depth, text |-> text]
AuthorKinds ==
    {<<T("Author", 0, FALSE), T("LastName", 1, TRUE), T("ForeName", 1, TRUE)>>,
     <<T("Author", 0, FALSE), T("ForeName", 1, TRUE), T("LastName", 1, TRUE)>>,
     <<T("Author", 0, FALSE), T("LastName", 1, TRUE)>>,
     <<T("Author", 0, FALSE), T("ForeName", 1, TRUE)>>,
     <<T("Author", 0, FALSE), T("CollectiveName", 1, TRUE)>>,
     <<T("Author", 0, FALSE), T("LastName", 1, FALSE), T("ForeName", 1, TRUE)>>,
     <<T("Author", 0, FALSE), T("LastName", 1, TRUE), T("ForeName", 1, FALSE)>>,
     <<T("Author", 0, FALSE), T("Author", 1, FALSE), T("LastName", 2, TRUE),
       T("ForeName", 2, TRUE)>>,
     <<T("Author", 0, FALSE), T("Name", 1, FALSE), T("LastName", 2, TRUE),
       T("ForeName", 2, TRUE)>>,
     <<T("Author", 0, FALSE), T("LastName", 1, TRUE), T("LastName", 1, TRUE),
       T("ForeName", 1, TRUE)>>}

RECURSIVE Place(_, _, _, _)
Place(d, block, base, k) ==
    IF k > Len(block) THEN d
    ELSE Place(Append(d, Node(block[k].tag, base + block[k].depth,
                              IF block[k].text THEN TextAt(Len(d) + 1) ELSE PyNone)),
               block, base, k + 1)

RECURSIVE PlaceAll(_, _, _, _)
PlaceAll(d, blocks, base, k) ==
    IF k > Len(blocks) THEN d
    ELSE PlaceAll(Place(d, blocks[k], base, 1), blocks, base, k + 1)

AuthorTags == {"Author", "LastName", "ForeName"}
AuthorDocs ==
    {PlaceAll(Skeleton, blocks, 2, 1) : blocks \in SeqsUpTo(AuthorKinds, MaxAuthors)}
    \cup {PlaceAll(Append(Skeleton, Node("AuthorList", 2, PyNone)), blocks, 3, 1) :
              blocks \in SeqsUpTo(AuthorKinds, MaxAuthors)}
    \cup GrowUpTo({Skeleton}, MaxAuthorNodes, AuthorTags, 2)

\* A set of k articles without content.
Flat(k) ==
    <<Node("PubmedArticleSet", 0, PyNone)>> \o [i \in 1..k |-> Node("PubmedArticle", 1, PyNone)]

\* The answer to a search for one paper.
Example ==
    <<Node("PubmedArticleSet", 0, PyNone), Node("PubmedArticle", 1, PyNone),
      Node("MedlineCitation", 2, PyNone), Node("PMID", 3, PyStr("12345")),
      Node("Article", 3, PyNone), Node("ArticleTitle", 4, PyStr("Example Study")),
      Node("Abstract", 4, PyNone), Node("AbstractText", 5, PyStr("An example abstract.")),
      Node("AuthorList", 4, PyNone), Node("Author", 5, PyNone),
      Node("LastName", 6, PyStr("Smith")), Node("ForeName", 6, PyStr("Jane"))>>

SmallDocs == {Example} \cup {Flat(k) : k \in 0..(RetMax + 1)}

FetchOutcomesOver(D) ==
    {Raises, Response(OK, NotXml)}
    \cup {Response(OK, Xml(d)) : d \in D}
    \cup {Response(s, b) : s \in Statuses \ {OK}, b \in {NotXml, Xml(Example)}}

FetchOutcomes == FetchOutcomesOver(SmallDocs)
ArticleOutcomes == FetchOutcomesOver(ArticleDocs)
FieldOutcomes == FetchOutcomesOver(FieldDocs)
AuthorOutcomes == FetchOutcomesOver(AuthorDocs)

(***************************************************************************)
(* The program.                                                            *)
(***************************************************************************)
Queries == {"cancer", "covid vaccine"}
Files == {PyNone, PyStr("out.csv")}

Init ==
    /\ pc = "cli"
    /\ query \in Queries
    /\ file \in Files
    /\ debug \in BOOLEAN
    /\ requests = <<>>
    /\ searchResp = NoResponse
    /\ ids = PyList(<<>>)
    /\ fetchResp = NoResponse
    /\ root = <<>>
    /\ articles = <<>>
    /\ done = 0
    /\ papers = <<>>
    /\ result = <<>>
    /\ output = <<>>
    /\ written = <<>>
    /\ error = ""

\* One invocation with fixed options.
InitOne ==
    /\ Init
    /\ query = "cancer"
    /\ file = PyNone
    /\ debug = FALSE

EchoNothing(out, msg) == out

\* typer.echo(msg)
Echo(out, msg) == Append(out, msg)

FailedOnServerErrorsOnly(status) == status >= 500

NeverFailed(status) == FALSE

\* `status_code != 200`
Failed(status) == status # OK

NeverEmpty(list) == FALSE

\* `not v`
IsEmpty(v) ==
    CASE v.type = "NoneType" -> TRUE
      [] v.type = "list" -> v.val = <<>>
      [] v.type = "dict" -> DOMAIN v.val = {}
      [] v.type = "str" -> v.val = ""
      [] v.type = "int" -> v.val = "0"

\* dict.get(key, default)
Get(dict, key, default) == IF key \in DOMAIN dict.val THEN dict.val[key] ELSE default

\* v.get raises AttributeError when v is no dict.
GetFails(v) == v.type # "dict"

\* response.json() raises on a body that is no JSON.
JsonFails(body) == body.kind = "text"

\* ET.fromstring raises on text that is no XML document.
ParseFails(body) == ~body.xml

Raise(exception) ==
    /\ pc' = "raised"
    /\ error' = exception

\* cli.py:11, get_papers calls fetch_papers(query).
GetPapers ==
    /\ pc = "cli"
    /\ pc' = "search"
    /\ UNCHANGED <<query, file, debug, requests, searchResp, ids, fetchResp, root,
                   articles, done, papers, result, output, written, error>>

\* pubmed.py:12-19, the search request and its outcome.
SearchRequest(outcomes) ==
    /\ pc = "search"
    /\ requests' = Append(requests,
                          [url |-> PUBMED_SEARCH_URL,
                           params |-> [db |-> "pubmed", term |-> query,
                                       retmode |-> "json", retmax |-> RetMax]])
    /\ \E o \in outcomes :
           IF o.raises
           THEN Raise("ConnectionError") /\ UNCHANGED searchResp
           ELSE searchResp' = o /\ pc' = "search_check" /\ UNCHANGED error
    /\ UNCHANGED <<query, file, debug, ids, fetchResp, root, articles, done, papers,
                   result, output, written>>

\* pubmed.py:21-30.
SearchCheck ==
    /\ pc = "search_check"
    /\ IF Failed(searchResp.status)
       THEN /\ output' = Echo(output, "Error: Failed to fetch data from PubMed.")
            /\ result' = <<>>
            /\ pc' = "returned"
            /\ UNCHANGED <<ids, error>>
       ELSE IF JsonFails(searchResp.body)
       THEN Raise("JSONDecodeError") /\ UNCHANGED <<ids, output, result>>
       ELSE IF \/ GetFails(searchResp.body.data)
               \/ GetFails(Get(searchResp.body.data, "esearchresult", PyDict(<<>>)))
       THEN Raise("AttributeError") /\ UNCHANGED <<ids, output, result>>
       ELSE /\ ids' = Get(Get(searchResp.body.data, "esearchresult", PyDict(<<>>)),
                         "idlist", PyList(<<>>))
            /\ IF IsEmpty(ids')
               THEN /\ output' = Echo(output, "No papers found for the given query.")
                    /\ result' = <<>>
                    /\ pc' = "returned"
               ELSE /\ pc' = "fetch"
                    /\ UNCHANGED <<output, result>>
            /\ UNCHANGED error
    /\ UNCHANGED <<query, file, debug, requests, searchResp, fetchResp, root, articles,
                   done, papers, written>>

\* pubmed.py:33-38, the fetch request and its outcome.
FetchRequest(outcomes) ==
    /\ pc = "fetch"
    /\ IF JoinFails(ids)
       THEN Raise("TypeError") /\ UNCHANGED <<requests, fetchResp>>
       ELSE /\ requests' = Append(requests,
                                  [url |-> PUBMED_FETCH_URL,
                                   params |-> [db |-> "pubmed", id |-> Join(",", ids.val),
                                               retmode |-> "xml"]])
            /\ \E o \in outcomes :
                   IF o.raises
                   THEN Raise("ConnectionError") /\ UNCHANGED fetchResp
                   ELSE fetchResp' = o /\ pc' = "fetch_check" /\ UNCHANGED error
    /\ UNCHANGED <<query, file, debug, searchResp, ids, root, articles, done, papers,
                   result, output, written>>

\* pubmed.py:40-48, up to the evaluation of root.findall.
FetchCheck ==
    /\ pc = "fetch_check"
    /\ IF Failed(fetchResp.status)
       THEN /\ output' = Echo(output, "Error: Failed to fetch paper details.")
            /\ result' = <<>>
            /\ pc' = "returned"
            /\ UNCHANGED <<root, articles, error>>
       ELSE IF ParseFails(fetchResp.body)
       THEN Raise("ParseError") /\ UNCHANGED <<root, articles, output, result>>
       ELSE /\ root' = fetchResp.body.doc
            /\ articles' = FindAllDescendants(root', 1, "PubmedArticle")
            /\ pc' = "loop"
            /\ UNCHANGED <<output, result, error>>
    /\ papers' = <<>>
    /\ done' = 0
    /\ UNCHANGED <<query, file, debug, requests, searchResp, ids, fetchResp, written>>

\* pubmed.py:48-69, one iteration of the loop.
ExtractArticle ==
    /\ pc = "loop"
    /\ done < Len(articles)
    /\ done' = done + 1
    /\ papers' = Append(papers, Paper(root, articles[done']))
    /\ UNCHANGED <<pc, query, file, debug, requests, searchResp, ids, fetchResp, root,
                   articles, result, output, written, error>>

\* pubmed.py:71.
ReturnPapers ==
    /\ pc = "loop"
    /\ done = Len(articles)
    /\ result' = papers
    /\ pc' = "returned"
    /\ UNCHANGED <<query, file, debug, requests, searchResp, ids, fetchResp, root,
                   articles, done, papers, output, written, error>>

\* cli.py:13-26, get_papers after fetch_papers returned.
Report ==
    /\ pc = "returned"
    /\ LET afterDebug ==
               IF debug
               THEN Echo(output, "Fetched " \o ToString(Len(result)) \o " papers.")
               ELSE output
       IN  IF result = <<>>
           THEN /\ output' = Echo(afterDebug, "No papers found.")
                /\ UNCHANGED written
           ELSE IF file.type # "NoneType"
           THEN /\ written' = result
                /\ output' = Echo(afterDebug, "Saved results to " \o file.val \o ".")
           ELSE /\ output' = Echo(afterDebug, "<table>")
                /\ UNCHANGED written
    /\ pc' = "exit"
    /\ UNCHANGED <<query, file, debug, requests, searchResp, ids, fetchResp, root,
                   articles, done, papers, result, error>>

Step(searches, fetches) ==
    \/ GetPapers
    \/ SearchRequest(searches)
    \/ SearchCheck
    \/ FetchRequest(fetches)
    \/ FetchCheck
    \/ ExtractArticle
    \/ ReturnPapers
    \/ Report

Next == Step(SearchOutcomes, FetchOutcomes)
NextArticles == Step(OneIdOutcomes, ArticleOutcomes)
NextFields == Step(OneIdOutcomes, FieldOutcomes)
NextAuthors == Step(OneIdOutcomes, AuthorOutcomes)

\* Every invocation, every search answer, the small documents.
Spec == Init /\ [][Next]_vars
\* One invocation, every document over the article tags.
SpecArticles == InitOne /\ [][NextArticles]_vars
\* One invocation, one article with every arrangement of field elements.
SpecFields == InitOne /\ [][NextFields]_vars
\* One invocation, one article with every arrangement of authors.
SpecAuthors == InitOne /\ [][NextAuthors]_vars

(***************************************************************************)
(* Vocabulary of the properties: the document as sets of elements.         *)
(***************************************************************************)
Returned == pc \in {"returned", "exit"}

\* fetch_papers returned after both requests were answered with status 200.
Extracted == Returned /\ Len(requests) = 2 /\ fetchResp.status = 200

\* The elements below element i, and its children.
Below(doc, i) ==
    {j \in (i + 1)..Len(doc) : \A k \in (i + 1)..j : doc[k].depth > doc[i].depth}
ChildrenOf(doc, i) == {j \in Below(doc, i) : doc[j].depth = doc[i].depth + 1}
Tagged(doc, S, tag) == {j \in S : doc[j].tag = tag}

Earliest(S) == CHOOSE x \in S : \A y \in S : x <= y
\* The k-th element of S in document order.
Kth(S, k) == CHOOSE i \in S : Cardinality({j \in S : j < i}) = k - 1
TextOfEarliest(doc, S) == IF S = {} THEN NA ELSE doc[Earliest(S)].text

\* The search body is a JSON object whose esearchresult, if any, is one too.
WellShaped(body) ==
    /\ body.kind = "json"
    /\ body.data.type = "dict"
    /\ "esearchresult" \in DOMAIN body.data.val => body.data.val.esearchresult.type = "dict"

\* The search body carries an idlist member.
HasIdList(body) ==
    /\ WellShaped(body)
    /\ "esearchresult" \in DOMAIN body.data.val
    /\ "idlist" \in DOMAIN body.data.val.esearchresult.val

\* The search body names no identifier: it has no idlist, an empty one or
\* null for one.
NoIdentifiers(body) ==
    /\ WellShaped(body)
    /\ HasIdList(body) =>
           \/ body.data.val.esearchresult.val.idlist = PyList(<<>>)
           \/ body.data.val.esearchresult.val.idlist = PyNone

\* The identifiers of a search body whose idlist is a list.
HasIdentifiers(body) == HasIdList(body) /\ body.data.val.esearchresult.val.idlist.type = "list"
Identifiers(body) == body.data.val.esearchresult.val.idlist.val

RECURSIVE CommaJoined(_)
CommaJoined(list) ==
    IF Len(list) = 1 THEN list[1].val
    ELSE CommaJoined(SubSeq(list, 1, Len(list) - 1)) \o "," \o list[Len(list)].val

(***************************************************************************)
(* C1.  A non-200 status at the search or at the fetch request makes       *)
(* fetch_papers return the empty list: it neither raises nor keeps a       *)
(* record, also when the failed fetch followed a search with identifiers.  *)
(***************************************************************************)
C1_FailedStatusGivesEmpty ==
    /\ searchResp.status \notin {0, 200} =>
           /\ pc \in {"search_check", "returned", "exit"}
           /\ Returned => result = <<>> /\ papers = <<>> /\ Len(requests) = 1
    /\ fetchResp.status \notin {0, 200} =>
           /\ pc \in {"fetch_check", "returned", "exit"}
           /\ Returned => result = <<>> /\ papers = <<>>

C1_Witness ==
    /\ Returned
    /\ fetchResp.status = 500
    /\ fetchResp.body = Xml(Example)
    /\ Len(ids.val) = 2
    /\ result = <<>>

(***************************************************************************)
(* C2.  A status-200 search answer whose identifier list is empty or       *)
(* absent makes fetch_papers return the empty list, and no request to the  *)
(* fetch endpoint is issued.                                               *)
(***************************************************************************)
C2_NoIdsNoFetch ==
    (/\ searchResp.status = 200
     /\ WellShaped(searchResp.body)
     /\ HasIdList(searchResp.body) =>
            HasIdentifiers(searchResp.body) /\ Identifiers(searchResp.body) = <<>>) =>
        /\ pc \in {"search_check", "returned", "exit"}
        /\ Returned => result = <<>>
        /\ \A i \in 1..Len(requests) : requests[i].url # PUBMED_FETCH_URL

C2_Witness ==
    /\ pc = "exit"
    /\ searchResp.status = 200
    /\ WellShaped(searchResp.body)
    /\ "esearchresult" \notin DOMAIN searchResp.body.data.val
    /\ Len(requests) = 1
    /\ result = <<>>

(***************************************************************************)
(* C10.  The requests are one search request, then at most one fetch       *)
(* request; the fetch request is issued only after a status-200 search     *)
(* answer with a non-empty identifier list, its id parameter is that list  *)
(* joined with commas in the order of the answer, and nothing is retried.  *)
(***************************************************************************)
C10_LinearRequests ==
    /\ Len(requests) <= 2
    /\ pc \notin {"cli", "search"} => Len(requests) >= 1
    /\ Len(requests) >= 1 =>
           /\ requests[1].url = PUBMED_SEARCH_URL
           /\ requests[1].params =
                  [db |-> "pubmed", term |-> query, retmode |-> "json", retmax |-> 10]
    /\ Len(requests) = 2 =>
           /\ requests[2].url = PUBMED_FETCH_URL
           /\ searchResp.status = 200
           /\ HasIdentifiers(searchResp.body)
           /\ Identifiers(searchResp.body) # <<>>
           /\ requests[2].params =
                  [db |-> "pubmed", id |-> CommaJoined(Identifiers(searchResp.body)),
                   retmode |-> "xml"]
    /\ pc \in {"fetch_check", "loop"} => Len(requests) = 2

C10_Witness ==
    /\ Returned
    /\ Len(requests) = 2
    /\ requests[2].params.id = "31,7"

(***************************************************************************)
(* C5.  The list fetch_papers returns has at most 10 elements, whatever    *)
(* the two answers are.                                                    *)
(***************************************************************************)
C5_AtMostTenRecords == Returned => Len(result) <= 10

C9_EmptyResultEchoedBeforeReturn ==
    (pc = "returned" /\ result = <<>>) => output # <<>>

\* The fetch answer was a document without an article below its root.
EmptyArticleSet == Extracted /\ Tagged(root, Below(root, 1), "PubmedArticle") = {}

(***************************************************************************)
(* C9 as amended.  On a non-200 search status, an empty identifier list    *)
(* and a non-200 fetch status fetch_papers echoes one message before it    *)
(* returns the empty list.  On a document without articles it returns the  *)
(* empty list without echoing anything: the message of that case, "No      *)
(* papers found.", is echoed by the caller get_papers after fetch_papers   *)
(* returned.  The messages are echoed, never returned.                     *)
(***************************************************************************)
C9_EmptyResultMessages ==
    /\ (pc = "returned" /\ result = <<>>) =>
           \/ /\ searchResp.status # 200
              /\ output = <<"Error: Failed to fetch data from PubMed.">>
           \/ /\ searchResp.status = 200
              /\ NoIdentifiers(searchResp.body)
              /\ output = <<"No papers found for the given query.">>
           \/ /\ Len(requests) = 2
              /\ fetchResp.status # 200
              /\ output = <<"Error: Failed to fetch paper details.">>
           \/ /\ EmptyArticleSet
              /\ output = <<>>
    /\ (pc = "exit" /\ result = <<>>) =>
           /\ output # <<>>
           /\ output[Len(output)] = "No papers found."
           /\ written = <<>>

C9_Witness ==
    /\ pc = "exit"
    /\ EmptyArticleSet
    /\ result = <<>>
    /\ output = <<"No papers found.">>

(***************************************************************************)
(* C3 as stated.  When both requests succeed, fetch_papers returns one     *)
(* record for each PubmedArticle element anywhere in the document, in      *)
(* document order.                                                         *)
(***************************************************************************)
AllArticles(doc) == Tagged(doc, 1..Len(doc), "PubmedArticle")

C3_OneRecordPerArticleAnywhere ==
    Extracted =>
        /\ Len(result) = Cardinality(AllArticles(root))
        /\ \A k \in 1..Len(result) :
               result[k].PubmedID =
                   TextOfEarliest(root, Tagged(root, Below(root, Kth(AllArticles(root), k)), "PMID"))

(***************************************************************************)
(* C3 as amended.  When both requests succeed, fetch_papers returns one    *)
(* record for each PubmedArticle element below the root element of the     *)
(* document, at any depth, in document order, without removing duplicates; *)
(* a root element that is itself a PubmedArticle gets no record.           *)
(***************************************************************************)
ArticlesBelowRoot(doc) == Tagged(doc, Below(doc, 1), "PubmedArticle")

C3_OneRecordPerArticleBelowRoot ==
    Extracted =>
        /\ Len(result) = Cardinality(ArticlesBelowRoot(root))
        /\ \A k \in 1..Len(result) :
               result[k].PubmedID =
                   TextOfEarliest(root,
                                  Tagged(root, Below(root, Kth(ArticlesBelowRoot(root), k)), "PMID"))

\* A PubmedArticle root holding an article with an identifier, then one
\* without: two records, the root has none.
C3_Witness ==
    /\ Extracted
    /\ root[1].tag = "PubmedArticle"
    /\ Len(result) = 2
    /\ result[1].PubmedID = PyStr("t3")
    /\ result[2].PubmedID = NA

(***************************************************************************)
(* C4.  Every field of every returned record is a string, never None,      *)
(* also when an element is present but carries no text.                    *)
(***************************************************************************)
C4_FieldsAreStrings ==
    Returned =>
        \A k \in 1..Len(result) :
            /\ result[k].PubmedID.type = "str"
            /\ result[k].Title.type = "str"
            /\ result[k].Authors.type = "str"
            /\ result[k].Abstract.type = "str"

(***************************************************************************)
(* C7 as stated.  The identifier, the title and the abstract of a record   *)
(* are each the text of the first matching element below the article in    *)
(* document order (PMID, ArticleTitle, an AbstractText that is the child   *)
(* of an Abstract), and "N/A" when the article has no such element, each   *)
(* field on its own.                                                       *)
(***************************************************************************)
AbstractTexts(doc, a) ==
    {j \in Tagged(doc, Below(doc, a), "AbstractText") :
        \E c \in Tagged(doc, Below(doc, a), "Abstract") : j \in ChildrenOf(doc, c)}

C7_FieldsFromFirstInDocumentOrder ==
    Extracted =>
        \A k \in 1..Len(result) :
            LET a == Kth(ArticlesBelowRoot(root), k)
            IN  /\ result[k].PubmedID = TextOfEarliest(root, Tagged(root, Below(root, a), "PMID"))
                /\ result[k].Title =
                       TextOfEarliest(root, Tagged(root, Below(root, a), "ArticleTitle"))
                /\ result[k].Abstract = TextOfEarliest(root, AbstractTexts(root, a))

(***************************************************************************)
(* C7 as amended.  The identifier and the title are the text of the first  *)
(* PMID and ArticleTitle element below the article in document order.  The *)
(* abstract is the text of the first AbstractText child of the first       *)
(* Abstract element below the article, in document order, that has an      *)
(* AbstractText child; with an Abstract nested in another this need not be *)
(* the first AbstractText of the document.  A field whose element is       *)
(* missing is "N/A", each field on its own.                                *)
(***************************************************************************)
AbstractsWithText(doc, a) ==
    {c \in Tagged(doc, Below(doc, a), "Abstract") :
        Tagged(doc, ChildrenOf(doc, c), "AbstractText") # {}}

AbstractAsFound(doc, a) ==
    IF AbstractsWithText(doc, a) = {} THEN NA
    ELSE doc[Earliest(Tagged(doc, ChildrenOf(doc, Earliest(AbstractsWithText(doc, a))),
                             "AbstractText"))].text

C7_FieldsFromFirstMatch ==
    Extracted =>
        \A k \in 1..Len(result) :
            LET a == Kth(ArticlesBelowRoot(root), k)
            IN  /\ result[k].PubmedID = TextOfEarliest(root, Tagged(root, Below(root, a), "PMID"))
                /\ result[k].Title =
                       TextOfEarliest(root, Tagged(root, Below(root, a), "ArticleTitle"))
                /\ result[k].Abstract = AbstractAsFound(root, a)

\* An Abstract holding an Abstract with an AbstractText, then an
\* AbstractText of its own; no PMID and no title.
C7_Witness ==
    /\ Extracted
    /\ Len(result) = 1
    /\ AbstractTexts(root, 2) = {5, 6}
    /\ result[1].Abstract = PyStr("t6")
    /\ result[1].PubmedID = NA
    /\ result[1].Title = NA

(***************************************************************************)
(* C6.  The authors field lists, in document order, every Author element   *)
(* below the article that has both a LastName and a ForeName: each gives   *)
(* the text of its ForeName, a space and the text of its LastName; the     *)
(* entries are joined with ", "; the field is "N/A" when there is none.    *)
(***************************************************************************)
ElementText(doc, j) == IF doc[j].text.type = "str" THEN doc[j].text.val ELSE ""

Qualifying(doc, a) ==
    {j \in Tagged(doc, Below(doc, a), "Author") :
        /\ Tagged(doc, ChildrenOf(doc, j), "LastName") # {}
        /\ Tagged(doc, ChildrenOf(doc, j), "ForeName") # {}}

NameOf(doc, j) ==
    ElementText(doc, Earliest(Tagged(doc, ChildrenOf(doc, j), "ForeName")))
    \o " " \o ElementText(doc, Earliest(Tagged(doc, ChildrenOf(doc, j), "LastName")))

RECURSIVE NamesJoined(_, _)
NamesJoined(doc, S) ==
    IF Cardinality(S) = 1 THEN NameOf(doc, Earliest(S))
    ELSE NameOf(doc, Earliest(S)) \o ", " \o NamesJoined(doc, S \ {Earliest(S)})

AuthorsAsClaimed(doc, a) ==
    IF Qualifying(doc, a) = {} THEN NA ELSE PyStr(NamesJoined(doc, Qualifying(doc, a)))

C6_AuthorsJoined ==
    Extracted =>
        \A k \in 1..Len(result) :
            result[k].Authors = AuthorsAsClaimed(root, Kth(ArticlesBelowRoot(root), k))

\* The same, for the documents in which every LastName and ForeName
\* carries text.
NamesHaveText(doc) ==
    \A j \in 1..Len(doc) : doc[j].tag \in {"LastName", "ForeName"} => doc[j].text.type = "str"

AuthorsJoinedWhenNamesHaveText ==
    (Extracted /\ NamesHaveText(root)) =>
        \A k \in 1..Len(result) :
            result[k].Authors = AuthorsAsClaimed(root, Kth(ArticlesBelowRoot(root), k))

TwoAuthorsJoined ==
    /\ Extracted
    /\ NamesHaveText(root)
    /\ Len(result) = 1
    /\ Cardinality(Qualifying(root, 2)) = 2
    /\ result[1].Authors = PyStr("t5 t4, t8 t7")

====
